---- MODULE Spec2Model ----
(***************************************************************************)
(* Model of warehouse_system.py: the inventory ledger, the database log,   *)
(* the receiving process (template method), the facade, the order builder, *)
(* the product composite and its visitors.                                 *)
(*                                                                         *)
(* Python objects are modelled by value where the code never relies on     *)
(* identity (products, ledger, log) and by reference where it does (the    *)
(* Order a builder hands out, the components of the composite).            *)
(* Console output is modelled as the sequence of lines printed by the      *)
(* most recent top-level call, each line a tuple of its variable parts.    *)
(***************************************************************************)
EXTENDS Integers, Sequences, FiniteSets, TLC

VARIABLES stock, supplies, out,
          heap, builderOrder, returned, calls,
          children, query, raised

vars == <<stock, supplies, out, heap, builderOrder, returned, calls,
          children, query, raised>>

warehouseVars == <<stock, supplies, out>>
builderVars == <<heap, builderOrder, returned, calls>>
compositeVars == <<children, query, raised>>

None == "None"

(***************************************************************************)
(* Bounds of the model.                                                    *)
(***************************************************************************)
MaxQty == 1
MaxStock == 1
MaxSupplies == 2
MaxCalls == 4
MaxLinks == 3
\* Depth of the Python call stack available to a traversal; larger than the
\* deepest traversal of any acyclic structure over the model's components.
RecursionLimit == 8

(***************************************************************************)
(* 1. Factory Method: products.                                            *)
(***************************************************************************)
Kinds == {"clothing", "electronics", "food"}

\* ProductFactory.create_product: the class is kept as the kind tag.
create_product(product_type, name, price) ==
    IF product_type \in Kinds
    THEN [kind |-> product_type, name |-> name, price |-> price]
    ELSE "ValueError"

\* Clothing.get_type / Electronics.get_type / Food.get_type (labels
\* transliterated).
get_type(product) ==
    CASE product.kind = "clothing" -> "Odezhda"
      [] product.kind = "electronics" -> "Elektronika"
      [] product.kind = "food" -> "Produkty"

\* The products the calls are made with: two share a name but not a type,
\* two share a type but not a name.
tshirt == create_product("clothing", "Shirt", 5)
snack == create_product("food", "Shirt", 2)
apple == create_product("food", "Apple", 1)
Products == {tshirt, snack, apple}

\* The products supplied to the warehouse: the two that the ledger has to
\* tell apart by their type.
Supplied == {tshirt, snack}

Quantities == (0 - MaxQty)..MaxQty

(***************************************************************************)
(* Inventory and Database.                                                 *)
(***************************************************************************)
\* dict.get(key, default)
DictGet(d, key, default) == IF key \in DOMAIN d THEN d[key] ELSE default

StockKey(product) == <<get_type(product), product.name>>

\* Inventory.add_stock, on the state record w = [stock, supplies, out].
add_stock(w, product, quantity) ==
    LET key == StockKey(product)
    IN [w EXCEPT !.stock =
          [k \in (DOMAIN w.stock) \cup {key} |->
              IF k = key THEN DictGet(w.stock, key, 0) + quantity
                         ELSE w.stock[k]]]

\* Inventory.get_stock
get_stock(w, product) == DictGet(w.stock, StockKey(product), 0)

\* print(...): one line appended to the console output
console(w, line) == [w EXCEPT !.out = Append(@, line)]

\* A log that puts the newest record first.
save_supply_front(w, product, quantity) ==
    console([w EXCEPT !.supplies = <<<<product.name, quantity>>>> \o @],
            <<"saved", product.name, quantity>>)

\* Database.save_supply
save_supply(w, product, quantity) ==
    console([w EXCEPT !.supplies = Append(@, <<product.name, quantity>>)],
           <<"saved", product.name, quantity>>)

(***************************************************************************)
(* 3. Facade.                                                              *)
(***************************************************************************)
\* WarehouseFacade.register_supply
register_supply(w, product, quantity) ==
    add_stock(console(w, <<"register", product.name, quantity>>),
              product, quantity)

\* WarehouseFacade.check_inventory
check_inventory(w, product) ==
    console(w, <<"available", product.name, get_stock(w, product)>>)

\* WarehouseFacade.save_to_database
save_to_database(w, product, quantity) == save_supply(w, product, quantity)

\* WarehouseFacade.process_supply
process_supply(w, product, quantity) ==
    LET w1 == console(w, <<"processing", product.name, quantity>>)
        w2 == register_supply(w1, product, quantity)
        w3 == check_inventory(w2, product)
        w4 == save_to_database(w3, product, quantity)
    IN console(w4, <<"processed">>)

(***************************************************************************)
(* 5. Template Method: the receiving process.                              *)
(***************************************************************************)
\* ProductReceivingProcess.scan
scan(w, product) == console(w, <<"scan", product.name>>)

\* A check that lets a zero quantity pass.
check_nonnegative(w, product, quantity) ==
    IF quantity >= 0
    THEN [ret |-> TRUE, w |-> console(w, <<"check passed">>)]
    ELSE [ret |-> FALSE, w |-> console(w, <<"check failed">>)]

\* StorekeeperReceivingProcess.check: the returned flag and the line printed.
check(w, product, quantity) ==
    IF quantity > 0
    THEN [ret |-> TRUE, w |-> console(w, <<"check passed">>)]
    ELSE [ret |-> FALSE, w |-> console(w, <<"check failed">>)]

\* ProductReceivingProcess.store (the base step: prints only)
base_store(w, product, quantity) ==
    console(w, <<"placing", quantity, product.name>>)

\* StorekeeperReceivingProcess.store
store(w, product, quantity) ==
    add_stock(base_store(w, product, quantity), product, quantity)

\* StorekeeperReceivingProcess.maintenance
maintenance(w) == console(w, <<"maintenance">>)

\* ProductReceivingProcess.receive_product, with the storekeeper's steps.
receive_product(w, product, quantity) ==
    LET w1 == scan(w, product)
        c == check(w1, product, quantity)
    IN IF c.ret
       THEN maintenance(store(c.w, product, quantity))
       ELSE console(c.w, <<"receiving error">>)

(***************************************************************************)
(* Users of the system.                                                    *)
(***************************************************************************)
\* A storekeeper who stops when the receiving check fails.
receive_supply_stop(w, product, quantity) ==
    LET w1 == console(w, <<"storekeeper starts">>)
        w2 == receive_product(w1, product, quantity)
    IN IF quantity > 0 THEN process_supply(w2, product, quantity) ELSE w2

\* Storekeeper.receive_supply: receiving process and facade share the
\* inventory (as main() wires them).
receive_supply(w, product, quantity) ==
    LET w1 == console(w, <<"storekeeper starts">>)
        w2 == receive_product(w1, product, quantity)
    IN process_supply(w2, product, quantity)

\* Administrator.update_stock
update_stock(w, product, quantity) ==
    add_stock(console(w, <<"admin updates", product.name, quantity>>),
              product, quantity)

(***************************************************************************)
(* Warehouse state machine.                                                *)
(***************************************************************************)
\* The objects' state at the start of a top-level call.
Entry == [stock |-> stock, supplies |-> supplies, out |-> <<>>]

InBounds(w) ==
    /\ \A k \in DOMAIN w.stock :
          w.stock[k] <= MaxStock /\ w.stock[k] >= 0 - MaxStock
    /\ Len(w.supplies) <= MaxSupplies

Commit(w) ==
    /\ InBounds(w)
    /\ stock' = w.stock
    /\ supplies' = w.supplies
    /\ out' = w.out
    /\ UNCHANGED <<builderVars, compositeVars>>

AddStock(p, q) == Commit(add_stock(Entry, p, q))
ProcessSupply(p, q) == Commit(process_supply(Entry, p, q))
UpdateStock(p, q) == Commit(update_stock(Entry, p, q))
ReceiveProduct(p, q) == Commit(receive_product(Entry, p, q))
ReceiveSupply(p, q) == Commit(receive_supply(Entry, p, q))

(***************************************************************************)
(* 2. Builder.  Orders live in a heap of objects; a builder holds a        *)
(* reference to its draft and build() returns a reference.                 *)
(***************************************************************************)
Labels == {"Box1", "Box2"}

\* The null reference: build() has not returned yet.
NoOrder == 0

\* Order.__init__
Order == [products |-> <<>>, packaging |-> None]

\* An order that puts the newest product first.
Order_add_product_front(o, product) ==
    [o EXCEPT !.products = <<product>> \o @]

\* Order.add_product
Order_add_product(o, product) == [o EXCEPT !.products = Append(@, product)]

\* Order.set_packaging
Order_set_packaging(o, packaging) == [o EXCEPT !.packaging = packaging]

\* OrderBuilder.__init__, on the builder record b = [heap, order, ret]:
\* a new Order object is allocated and referenced by self.order.
OrderBuilder == [heap |-> (1 :> Order), order |-> 1, ret |-> NoOrder]

\* OrderBuilder.add_product (returns self)
add_product(b, product) ==
    [b EXCEPT !.heap[b.order] = Order_add_product(@, product)]

\* OrderBuilder.set_packaging (returns self)
set_packaging(b, packaging) ==
    [b EXCEPT !.heap[b.order] = Order_set_packaging(@, packaging)]

\* A build that hands out a copy of the draft.
build_copy(b) ==
    LET new == Cardinality(DOMAIN b.heap) + 1
    IN [b EXCEPT !.heap = (new :> b.heap[b.order]) @@ b.heap, !.ret = new]

\* OrderBuilder.build: returns the reference self.order.
build(b) == [b EXCEPT !.ret = b.order]

BuilderEntry == [heap |-> heap, order |-> builderOrder, ret |-> returned]

BuilderCommit(b, call) ==
    /\ Len(calls) < MaxCalls
    /\ heap' = b.heap
    /\ builderOrder' = b.order
    /\ returned' = b.ret
    /\ calls' = Append(calls, call)
    /\ UNCHANGED <<warehouseVars, compositeVars>>

AddProduct(p) ==
    BuilderCommit(add_product(BuilderEntry, p),
                  [op |-> "add_product", arg |-> p])
SetPackaging(l) ==
    BuilderCommit(set_packaging(BuilderEntry, l),
                  [op |-> "set_packaging", arg |-> l])
Build ==
    BuilderCommit(build(BuilderEntry), [op |-> "build", arg |-> None])

(***************************************************************************)
(* 4. Composite and 6. Visitor.  Components are objects: leaves wrap a     *)
(* product, groups hold an ordered list of references to components.       *)
(***************************************************************************)
Groups == {"shipment", "box1", "box2"}
Leaves == {"leaf_tshirt", "leaf_apple"}
Components == Groups \cup Leaves

\* SingleProduct.__init__: the product each leaf wraps.
LeafProduct(c) == IF c = "leaf_tshirt" THEN tshirt ELSE apple

\* ProductGroup.add
add(ch, group, component) == [ch EXCEPT ![group] = Append(@, component)]

\* list.remove: drops the first occurrence, ValueError when there is none.
RemoveFirst(seq, x) ==
    LET i == CHOOSE j \in 1..Len(seq) :
                 seq[j] = x /\ \A k \in 1..(j - 1) : seq[k] # x
    IN [j \in 1..(Len(seq) - 1) |-> IF j < i THEN seq[j] ELSE seq[j + 1]]

\* ProductGroup.remove
remove(ch, group, component) ==
    IF \E j \in 1..Len(ch[group]) : ch[group][j] = component
    THEN [children |-> [ch EXCEPT ![group] = RemoveFirst(@, component)],
          raised |-> None]
    ELSE [children |-> ch, raised |-> "ValueError"]

\* SingleProduct.get_price / ProductGroup.get_price.  depth is the number of
\* stack frames in use by the call; a call past RecursionLimit raises
\* RecursionError, which aborts the loops of all the callers.
RECURSIVE get_price(_, _, _)
RECURSIVE get_price_loop(_, _, _, _, _)
\* A loop that assigns instead of accumulating.
get_price_loop_assign(ch, group, i, total, depth) ==
    IF i > Len(ch[group])
    THEN [ok |-> TRUE, val |-> total]
    ELSE LET r == get_price(ch, ch[group][i], depth + 1)
         IN IF r.ok
            THEN get_price_loop(ch, group, i + 1, r.val, depth)
            ELSE r

get_price_loop(ch, group, i, total, depth) ==
    IF i > Len(ch[group])
    THEN [ok |-> TRUE, val |-> total]
    ELSE LET r == get_price(ch, ch[group][i], depth + 1)
         IN IF r.ok
            THEN get_price_loop(ch, group, i + 1, total + r.val, depth)
            ELSE r

get_price(ch, c, depth) ==
    IF depth > RecursionLimit
    THEN [ok |-> FALSE, val |-> 0]
    ELSE IF c \in Leaves
         THEN [ok |-> TRUE, val |-> LeafProduct(c).price]
         ELSE get_price_loop(ch, c, 1, 0, depth)

\* CostCalculatorVisitor.__init__
CostCalculatorVisitor == [cls |-> "CostCalculatorVisitor", total_cost |-> 0]

\* ReportVisitor.__init__
ReportVisitor == [cls |-> "ReportVisitor", report_lines |-> <<>>]

\* str(n) for an integer, as the sequence of its characters.
DigitChar == <<"0", "1", "2", "3", "4", "5", "6", "7", "8", "9">>

RECURSIVE Str(_)
Str(n) ==
    IF n < 0 THEN <<"-">> \o Str(0 - n)
    ELSE IF n < 10 THEN <<DigitChar[n + 1]>>
    ELSE Str(n \div 10) \o <<DigitChar[(n % 10) + 1]>>

\* The f-string of ReportVisitor.visit, as the sequence of its pieces
\* (fixed texts transliterated).
ReportLine(product) ==
    <<"Tovar: ", product.name, ", Tip: ", get_type(product), ", Cena: ">>
       \o Str(product.price)

\* A cost visitor that assigns instead of accumulating.
visit_assign(v, product) ==
    IF v.cls = "CostCalculatorVisitor"
    THEN [v EXCEPT !.total_cost = product.price]
    ELSE [v EXCEPT !.report_lines = Append(@, ReportLine(product))]

\* A report visitor that puts the newest line first.
visit_front(v, product) ==
    IF v.cls = "CostCalculatorVisitor"
    THEN [v EXCEPT !.total_cost = @ + product.price]
    ELSE [v EXCEPT !.report_lines = <<ReportLine(product)>> \o @]

\* CostCalculatorVisitor.visit / ReportVisitor.visit
visit(v, product) ==
    IF v.cls = "CostCalculatorVisitor"
    THEN [v EXCEPT !.total_cost = @ + product.price]
    ELSE [v EXCEPT !.report_lines = Append(@, ReportLine(product))]

\* "\n".join(lines)
RECURSIVE Join(_)
Join(lines) ==
    IF Len(lines) = 0 THEN <<>>
    ELSE IF Len(lines) = 1 THEN lines[1]
    ELSE lines[1] \o <<"\n">> \o Join(Tail(lines))

\* ReportVisitor.get_report
get_report(v) == Join(v.report_lines)

\* Product.accept: one more frame for visitor.visit.
product_accept(product, v, depth) ==
    IF depth + 1 > RecursionLimit
    THEN [ok |-> FALSE, v |-> v]
    ELSE [ok |-> TRUE, v |-> visit(v, product)]

\* SingleProduct.accept / ProductGroup.accept
RECURSIVE accept(_, _, _, _)
RECURSIVE accept_loop(_, _, _, _, _)
accept_loop(ch, group, i, v, depth) ==
    IF i > Len(ch[group])
    THEN [ok |-> TRUE, v |-> v]
    ELSE LET r == accept(ch, ch[group][i], v, depth + 1)
         IN IF r.ok THEN accept_loop(ch, group, i + 1, r.v, depth) ELSE r

accept(ch, c, v, depth) ==
    IF depth > RecursionLimit
    THEN [ok |-> FALSE, v |-> v]
    ELSE IF c \in Leaves
         THEN IF depth + 1 > RecursionLimit
              THEN [ok |-> FALSE, v |-> v]
              ELSE product_accept(LeafProduct(c), v, depth + 1)
         ELSE accept_loop(ch, c, 1, v, depth)

(***************************************************************************)
(* Composite state machine.                                                *)
(***************************************************************************)
NoQuery == [op |-> None, root |-> None, ret |-> None]

RECURSIVE SumLen(_, _)
SumLen(ch, S) ==
    IF S = {} THEN 0
    ELSE LET g == CHOOSE x \in S : TRUE
         IN Len(ch[g]) + SumLen(ch, S \ {g})

Add(g, c) ==
    /\ SumLen(children, Groups) < MaxLinks
    /\ children' = add(children, g, c)
    /\ raised' = None
    /\ query' = NoQuery
    /\ UNCHANGED <<warehouseVars, builderVars>>

Remove(g, c) ==
    LET r == remove(children, g, c)
    IN /\ children' = r.children
       /\ raised' = r.raised
       /\ query' = NoQuery
       /\ UNCHANGED <<warehouseVars, builderVars>>

Exc(ok) == IF ok THEN None ELSE "RecursionError"

\* c.get_price() called from the top level.
GetPrice(c) ==
    LET r == get_price(children, c, 1)
    IN /\ query' = [op |-> "get_price", root |-> c,
                    ret |-> IF r.ok THEN r.val ELSE None]
       /\ raised' = Exc(r.ok)
       /\ UNCHANGED <<children, warehouseVars, builderVars>>

\* v = CostCalculatorVisitor(); c.accept(v); v.total_cost
VisitCost(c) ==
    LET r == accept(children, c, CostCalculatorVisitor, 1)
    IN /\ query' = [op |-> "cost", root |-> c, ret |-> r.v.total_cost]
       /\ raised' = Exc(r.ok)
       /\ UNCHANGED <<children, warehouseVars, builderVars>>

\* v = ReportVisitor(); c.accept(v); v.get_report()
VisitReport(c) ==
    LET r == accept(children, c, ReportVisitor, 1)
    IN /\ query' = [op |-> "report", root |-> c,
                    ret |-> [lines |-> r.v.report_lines,
                             report |-> get_report(r.v)]]
       /\ raised' = Exc(r.ok)
       /\ UNCHANGED <<children, warehouseVars, builderVars>>

(***************************************************************************)
(* Specifications: one per group of objects that share state.              *)
(***************************************************************************)
Init ==
    /\ stock = << >>
    /\ supplies = << >>
    /\ out = << >>
    /\ heap = OrderBuilder.heap
    /\ builderOrder = OrderBuilder.order
    /\ returned = OrderBuilder.ret
    /\ calls = << >>
    /\ children = [g \in Groups |-> << >>]
    /\ query = NoQuery
    /\ raised = None

NextWarehouse ==
    \E p \in Supplied, q \in Quantities :
        \/ AddStock(p, q)
        \/ ProcessSupply(p, q)
        \/ UpdateStock(p, q)
        \/ ReceiveProduct(p, q)
        \/ ReceiveSupply(p, q)

NextBuilder ==
    \/ \E p \in Products : AddProduct(p)
    \/ \E l \in Labels : SetPackaging(l)
    \/ Build

NextComposite ==
    \/ \E g \in Groups, c \in Components : Add(g, c)
    \/ \E g \in Groups, c \in Components : Remove(g, c)
    \/ \E c \in Components : GetPrice(c)
    \/ \E c \in Components : VisitCost(c)
    \/ \E c \in Components : VisitReport(c)

SpecWarehouse == Init /\ [][NextWarehouse]_vars
SpecBuilder == Init /\ [][NextBuilder]_vars
SpecComposite == Init /\ [][NextComposite]_vars

(***************************************************************************)
(* Properties of the ledger, the receiving process and the facade.         *)
(***************************************************************************)
AllKeys == {StockKey(p) : p \in Supplied}

OnHand(stk, key) == DictGet(stk, key, 0)

\* The entry of `key` grows by `delta`, every other entry keeps its value.
OnlyEntryChanged(key, delta) ==
    /\ OnHand(stock', key) = OnHand(stock, key) + delta
    /\ \A k \in AllKeys \ {key} : OnHand(stock', k) = OnHand(stock, k)
    /\ \A k \in DOMAIN stock : k \in DOMAIN stock'

\* C1: under add_stock, process_supply, update_stock and receive_product
\* calls with any integer quantity, no ledger entry decreases from one state
\* to the next and every ledger entry is non-negative.
C1_NoUnderflow ==
    /\ [](\A k \in DOMAIN stock : stock[k] >= 0)
    /\ [][\A k \in DOMAIN stock :
             k \in DOMAIN stock' /\ stock'[k] >= stock[k]]_vars

SuccessPath(p, q) ==
    << <<"scan", p.name>>, <<"check passed">>, <<"placing", q, p.name>>,
       <<"maintenance">> >>

FailurePath(p) ==
    << <<"scan", p.name>>, <<"check failed">>, <<"receiving error">> >>

C3_ProcessSupply ==
    [][\A p \in Supplied, q \in Quantities :
         (Len(out') > 0 /\ out'[1] = <<"processing", p.name, q>>
             /\ ProcessSupply(p, q)) =>
            /\ OnlyEntryChanged(<<get_type(p), p.name>>, q)
            /\ Len(supplies') = Len(supplies) + 1
            /\ supplies'[Len(supplies')] = <<p.name, q>>
            /\ \A i \in 1..Len(supplies) : supplies'[i] = supplies[i]]_vars

C3_Witness ==
    /\ Len(out) = 5
    /\ out[1] = <<"processing", "Shirt", 1>>
    /\ Len(supplies) = 2
    /\ supplies[2] = <<"Shirt", 1>>
    /\ supplies[1] # supplies[2]
    /\ OnHand(stock, StockKey(snack)) = 1
    /\ OnHand(stock, StockKey(tshirt)) = 0 - 1

\* C10: receive_supply(p, q) appends exactly the record (name of p, q) to
\* the log and changes the stock of p by 2*q when q > 0 and by q when
\* q <= 0.
C10_ReceiveSupply ==
    [][\A p \in Supplied, q \in Quantities :
         (Len(out') > 0 /\ out'[1] = <<"storekeeper starts">>
             /\ ReceiveSupply(p, q)) =>
            /\ supplies' = Append(supplies, <<p.name, q>>)
            /\ OnlyEntryChanged(StockKey(p),
                                IF q > 0 THEN 2 * q ELSE q)]_vars

C10_Witness ==
    /\ Len(out) > 0
    /\ out[1] = <<"storekeeper starts">>
    /\ \E i \in 1..Len(out) : out[i] = <<"check failed">>
    /\ Len(supplies) = 2
    /\ supplies[1] = <<"Shirt", 1>>
    /\ supplies[2] = <<"Shirt", 0 - 1>>
    /\ StockKey(snack) \in DOMAIN stock
    /\ stock[StockKey(snack)] = 0 - 1
    /\ OnHand(stock, StockKey(tshirt)) = 1

(***************************************************************************)
(* Properties of the order builder.                                        *)
(***************************************************************************)
\* The arguments of the add_product calls of a call sequence, in call order.
AddedProducts(cs) ==
    LET sel == SelectSeq(cs, LAMBDA c : c.op = "add_product")
    IN [i \in 1..Len(sel) |-> sel[i].arg]

\* The label of the last set_packaging call of a call sequence, if any.
LastLabel(cs) ==
    LET at == {i \in 1..Len(cs) : cs[i].op = "set_packaging"}
    IN IF at = {} THEN None
       ELSE cs[CHOOSE i \in at : \A j \in at : j <= i].arg

\* C5: once build() has returned an Order, its product list and packaging
\* label never change, whatever is later called on the builder.
C5_ReturnedOrderFrozen ==
    [][returned # NoOrder => heap'[returned] = heap[returned]]_vars

\* C5 (amended): the Order build() has returned is the builder's own draft;
\* a later build() leaves it as it is, a later add_product(p) appends p to
\* its product list and a later set_packaging(l) replaces its label by l.
C5_ReturnedOrderIsDraft ==
    [][returned # NoOrder =>
         /\ Build => heap'[returned] = heap[returned]
         /\ \A p \in Products :
               AddProduct(p) =>
                  /\ heap'[returned].products =
                        Append(heap[returned].products, p)
                  /\ heap'[returned].packaging = heap[returned].packaging
         /\ \A l \in Labels :
               SetPackaging(l) =>
                  /\ heap'[returned].products = heap[returned].products
                  /\ heap'[returned].packaging = l]_vars

C5_Witness ==
    /\ returned # NoOrder
    /\ Len(calls) = 3
    /\ calls[1].op = "add_product"
    /\ calls[2].op = "build"
    /\ calls[3].op = "add_product"
    /\ Len(heap[returned].products) = 2

\* C9: build() yields an Order whose products are the added products in
\* call order, duplicates kept, and whose packaging is the label of the last
\* set_packaging call.
C9_BuilderRoundTrip ==
    (Len(calls) > 0 /\ calls[Len(calls)].op = "build") =>
        /\ returned # NoOrder
        /\ heap[returned].products = AddedProducts(calls)
        /\ heap[returned].packaging = LastLabel(calls)

\* add_product(a).add_product(b).set_packaging("X").build(), as in main().
C9_Witness ==
    /\ Len(calls) = 4
    /\ calls[1].op = "add_product" /\ calls[1].arg = tshirt
    /\ calls[2].op = "add_product" /\ calls[2].arg = apple
    /\ calls[3].op = "set_packaging" /\ calls[3].arg = "Box1"
    /\ calls[4].op = "build"
    /\ heap[returned] = [products |-> <<tshirt, apple>>, packaging |-> "Box1"]

(***************************************************************************)
(* Properties of the composite and the visitors.                           *)
(***************************************************************************)
ChildSet(ch, c) ==
    IF c \in Groups THEN {ch[c][i] : i \in DOMAIN ch[c]} ELSE {}

RECURSIVE Closure(_, _, _)
Closure(ch, S, n) ==
    IF n = 0 THEN S
    ELSE Closure(ch, S \cup UNION {ChildSet(ch, c) : c \in S}, n - 1)

\* The components reachable from c through one or more children links.
Descendants(ch, c) == Closure(ch, ChildSet(ch, c), Cardinality(Components))

Acyclic(ch, c) ==
    \A d \in Descendants(ch, c) \cup {c} : d \notin Descendants(ch, d)

\* No component occupies two child slots of the groups in S.
NoSharing(ch, S) ==
    \A g1 \in S, g2 \in S :
        \A i \in DOMAIN ch[g1], j \in DOMAIN ch[g2] :
            ch[g1][i] = ch[g2][j] => (g1 = g2 /\ i = j)

\* The structure hanging from root is a tree.
IsTree(ch, root) ==
    /\ Acyclic(ch, root)
    /\ NoSharing(ch, (Descendants(ch, root) \cup {root}) \cap Groups)

\* C4: after any sequence of add and remove calls the structure is a tree:
\* no component is a child of two groups or twice a child of one group, and
\* no group is reachable from itself.
C4_AlwaysTree ==
    /\ NoSharing(children, Groups)
    /\ \A g \in Groups : g \notin Descendants(children, g)

RECURSIVE SumOver(_, _)
SumOver(f, S) ==
    IF S = {} THEN 0
    ELSE LET x == CHOOSE y \in S : TRUE
         IN f[x] + SumOver(f, S \ {x})

\* The number of paths of children links from c down to the component d.
RECURSIVE Paths(_, _, _)
Paths(ch, c, d) ==
    IF c = d THEN 1
    ELSE IF c \in Leaves THEN 0
    ELSE SumOver([i \in DOMAIN ch[c] |-> Paths(ch, ch[c][i], d)],
                 DOMAIN ch[c])

LeafPrices == [l \in Leaves |-> LeafProduct(l).price]

\* C6: on every structure built by add and remove calls from which the
\* query returns, a group's get_price() is the sum of its current children's
\* get_price(), down to the leaf prices, and 0 for a group without children.
C6_GroupPrice ==
    (query.op = "get_price" /\ Acyclic(children, query.root)) =>
        LET c == query.root
        IN /\ raised = None
           /\ c \in Leaves => query.ret = LeafProduct(c).price
           /\ c \in Groups =>
                 /\ query.ret =
                       SumOver([i \in DOMAIN children[c] |->
                                   get_price(children, children[c][i], 1).val],
                               DOMAIN children[c])
                 /\ query.ret =
                       SumOver([l \in Leaves |->
                                   LeafPrices[l] * Paths(children, c, l)],
                               Leaves)
                 /\ children[c] = << >> => query.ret = 0

C6_Witness ==
    /\ query.op = "get_price"
    /\ query.root = "shipment"
    /\ children["shipment"] = <<"box1", "leaf_apple">>
    /\ children["box1"] = <<"leaf_tshirt">>
    /\ query.ret = 6

\* C7: a fresh CostCalculatorVisitor accepted by the root of a tree ends
\* with total_cost equal to the sum of the prices of the leaves of the tree,
\* however they are nested and ordered.
C7_CostTotal ==
    (query.op = "cost" /\ IsTree(children, query.root)) =>
        /\ raised = None
        /\ query.ret =
              SumOver(LeafPrices,
                      (Descendants(children, query.root) \cup {query.root})
                         \cap Leaves)

C7_Witness ==
    /\ query.op = "cost"
    /\ query.root = "shipment"
    /\ children["shipment"] = <<"leaf_apple", "box2">>
    /\ children["box2"] = <<"leaf_tshirt">>
    /\ query.ret = 6

\* The lines a fresh ReportVisitor records for the structure under c.
LinesOf(ch, c) == accept(ch, c, ReportVisitor, 1).v.report_lines

RECURSIVE Concat(_)
Concat(seqs) ==
    IF Len(seqs) = 0 THEN << >> ELSE seqs[1] \o Concat(Tail(seqs))

\* A text cut at its newlines.
RECURSIVE SplitLines(_, _)
SplitLines(text, line) ==
    IF Len(text) = 0 THEN <<line>>
    ELSE IF Head(text) = "\n"
         THEN <<line>> \o SplitLines(Tail(text), << >>)
         ELSE SplitLines(Tail(text), Append(line, Head(text)))

\* The lines recorded by the traversal the last query made are those of a
\* depth-first walk in children order.
ReportIsDepthFirst ==
    (query.op = "report" /\ raised = None) =>
        LET c == query.root
            lines == query.ret.lines
        IN /\ c \in Leaves => lines = <<ReportLine(LeafProduct(c))>>
           /\ c \in Groups =>
                 lines = Concat([i \in DOMAIN children[c] |->
                                    LinesOf(children, children[c][i])])
           /\ lines # << >> => SplitLines(query.ret.report, << >>) = lines
           /\ lines = << >> => query.ret.report = << >>

\* The lines of a component added to a group come after the lines of all the
\* children added before it.
AddedChildReportsLast ==
    \A g \in Groups :
        (Len(children'[g]) = Len(children[g]) + 1 /\ Acyclic(children', g)) =>
            \A c \in Components :
                Add(g, c) =>
                    LinesOf(children', g) =
                        LinesOf(children, g) \o LinesOf(children, c)

\* C8: a traversal visits the children of a group in insertion order, depth
\* first: the lines recorded for a group are the lines of its first child's
\* subtree, then those of its second child's subtree, and so on, a child
\* added later coming later; a leaf records the one line of its product;
\* get_report() returns the lines in that order.
C8_ReportOrder ==
    /\ []ReportIsDepthFirst
    /\ [][AddedChildReportsLast]_vars

C8_Witness ==
    /\ query.op = "report"
    /\ query.root = "shipment"
    /\ children["shipment"] = <<"box1", "leaf_apple">>
    /\ children["box1"] = <<"leaf_tshirt">>
    /\ query.ret.lines = <<ReportLine(tshirt), ReportLine(apple)>>

====
